---- MODULE Spec2Model ----
(***************************************************************************)
(* Model of networking-oneview's reconciliation core:                      *)
(*   neutron_oneview_client.py  (Network, Port, Client resource managers)  *)
(*   init_sync.py               (InitSync, the two periodic passes)        *)
(*                                                                         *)
(* The mapping store (db_manager), the configuration loader (common) and   *)
(* the uplink-set manager reached as client.uplinkset are not part of the  *)
(* two source files; they are modelled from their call sites and from the  *)
(* written specification, and marked as such in the model map.             *)
(* init_sync.py calls client.network.create with two extra arguments that  *)
(* Network.create does not declare; the call is modelled as a call of      *)
(* Network.create(session, network_dict).                                  *)
(***************************************************************************)
EXTENDS Integers, Sequences, FiniteSets, TLC

VARIABLES
    uplinkset_mappings_dict,    \* InitSync: physnet -> configured uplink-set ids
    physnet_uplinkset_mapping,  \* ResourceManager: tagged/untagged -> physnet -> ids
    flat_physnet_net_mapping,   \* ResourceManager: physnet -> pre-existing fabric network
    segments,                   \* logical network -> declared segment
    declared,                   \* logical networks the tenant controller lists
    rows,                       \* NetworkMapping rows: logical network -> row
    bindings,                   \* NetworkUplinksetBinding rows: <<fabric network, uplink set>>
    attached,                   \* history: pairs attached by this system's successful calls
    created,                    \* history: fabric networks returned by ethernet_networks.create
    lastOp,                     \* history: what the most recent handler did
    restarts,                   \* history: how often the service restarted
    server_profile,             \* fabric: the connections of the server profile
    port_events                 \* port-created events in flight: event -> handler state

vars == <<uplinkset_mappings_dict, physnet_uplinkset_mapping,
          flat_physnet_net_mapping, segments, declared, rows, bindings,
          attached, created, lastOp, restarts, server_profile, port_events>>

conf == <<uplinkset_mappings_dict, physnet_uplinkset_mapping,
          flat_physnet_net_mapping>>

----------------------------------------------------------------------------
(* Program constants *)

MAPPING_TYPE_NONE == 0
FLAT_PHYSNET_NET_MAPPING_TYPE == 1
PHYSNET_UPLINKSET_MAPPING_TYPE == 2

NETWORK_TYPE_TAGGED == "tagged"
NETWORK_TYPE_UNTAGGED == "untagged"

----------------------------------------------------------------------------
(* Bounds and input sets *)

\* How many fabric networks created by this system the mapping store refers
\* to at one time.
MaxOvNets == 2

\* How many fabric calls the fabric fails in one handler run.
MaxFailures == 1

\* How often the operator changes the configuration and restarts the service.
MaxRestarts == 1

\* Logical networks, in the order the mapping store lists them.
NetSeq == <<"n1", "n2">>
NetIds == {NetSeq[i] : i \in 1..Len(NetSeq)}

Physnets == {"physnetA", "physnetB"}
NoPhysnet == "None"
NetworkTypes == {"flat", "vlan", "vxlan"}

\* Uplink sets, in the order the mapping store lists binding rows.
UplinksetSeq == <<"U1", "U2", "U3">>
Uplinksets == {UplinksetSeq[i] : i \in 1..Len(UplinksetSeq)}

\* ethernetNetworkType the fabric reports for each uplink set.
FabricUplinksetType(u) == IF u = "U3" THEN "Untagged" ELSE "Tagged"

\* The physical networks the operator's configuration may name.
ConfiguredPhysnets == {"physnetA"}

\* Segments a logical network can declare: vlan and flat segments name a
\* physical network; a vxlan segment may or may not.
Segments ==
    {[physical_network |-> p, network_type |-> t] :
        p \in ConfiguredPhysnets, t \in NetworkTypes}
    \cup {[physical_network |-> "physnetB", network_type |-> "vlan"],
          [physical_network |-> NoPhysnet, network_type |-> "vxlan"]}

\* provider:segmentation_id of a segment: flat segments carry none.
segmentation_id(seg) == IF seg.network_type = "flat" THEN 0 ELSE 100

\* Operator-configured uplink-set lists (no id is listed twice).
RawLists == {<<"U1", "U2">>, <<"U2", "U3">>, <<"U3">>}
RawMappings ==
    UNION {[S -> RawLists] : S \in SUBSET ConfiguredPhysnets}

\* The pre-existing fabric network of a flat-mapped physical network.
FlatNetOf(p) == IF p = "physnetA" THEN "F1" ELSE "F2"
FlatMappings ==
    {[p \in S |-> FlatNetOf(p)] : S \in SUBSET ConfiguredPhysnets}

----------------------------------------------------------------------------
(* Small helpers *)

\* str.lower() on the type names the fabric reports.
Lower(s) ==
    CASE s = "Tagged" -> "tagged"
      [] s = "Untagged" -> "untagged"
      [] OTHER -> s

\* x in list
InList(x, list) == \E i \in 1..Len(list) : list[i] = x

\* the elements of set S in the order of seq
RECURSIVE OrderedFrom(_, _)
OrderedFrom(seq, S) ==
    IF seq = <<>> THEN <<>>
    ELSE (IF Head(seq) \in S THEN <<Head(seq)>> ELSE <<>>)
         \o OrderedFrom(Tail(seq), S)

\* One fabric call as the history records it: kind is create, delete, attach
\* or detach; ov the fabric network; us the uplink set; name the logical
\* network a created network is named after; type its ethernetNetworkType.
Call(kind, ov, us, name, type, ok) ==
    [kind |-> kind, ov |-> ov, us |-> us, name |-> name, type |-> type,
     ok |-> ok]

\* What the fabric answers to the calls of one handler run: the logical
\* networks whose ethernet-network create or delete fails, and the uplink
\* sets whose attach or detach fails.
Oracles(nets, us) ==
    {fl \in [nets : SUBSET nets, us : SUBSET us] :
        Cardinality(fl.nets) + Cardinality(fl.us) <= MaxFailures}
NoFailure == [nets |-> {}, us |-> {}]

\* The ids the fabric gives the ethernet networks it creates.
FabricId(k) == "ov" \o ToString(k)

\* The id of a newly created ethernet network: one no live network has.
NewFabricId(live) ==
    FabricId(CHOOSE k \in 1..(Cardinality(live) + 1) :
                /\ FabricId(k) \notin live
                /\ \A j \in 1..(k - 1) : FabricId(j) \in live)

\* The mapping store and the history as handlers thread them.
Store == [rows |-> rows, bindings |-> bindings, attached |-> attached,
          created |-> created]

\* A handler's outcome: the store it leaves, the fabric calls it made, the
\* exception it raised ("none" when it returned), the mapping type it decided.
Outcome(st, calls, raised, mapping_type) ==
    [st |-> st, calls |-> calls, raised |-> raised,
     mapping_type |-> mapping_type]

----------------------------------------------------------------------------
(* Client: the uplink-set index by type *)

\* The inner test of Client._get_uplinkset_by_type: the lookup failed, or
\* the fabric reports net_type for the uplink set.  (Mutant: an uplink set
\* whose lookup failed is left out.)
UplinksetMatches_fail_closed(u, net_type, lookup_failed) ==
    /\ u \notin lookup_failed
    /\ Lower(FabricUplinksetType(u)) = net_type

UplinksetMatches(u, net_type, lookup_failed) ==
    \/ u \in lookup_failed
    \/ Lower(FabricUplinksetType(u)) = net_type

_get_uplinkset_by_type(mapping, net_type, lookup_failed) ==
    LET matching(p) ==
            SelectSeq(mapping[p],
                      LAMBDA u : UplinksetMatches(u, net_type, lookup_failed))
        listed == {p \in DOMAIN mapping : matching(p) # <<>>}
    IN  [p \in listed |-> matching(p)]

\* The uplink sets are looked up once per type: lookup_failed[t] holds the
\* ids whose lookup failed while the list of type t was built.
_physnet_uplinkset_mapping_by_type(mapping, lookup_failed) ==
    [t \in {NETWORK_TYPE_TAGGED, NETWORK_TYPE_UNTAGGED} |->
        _get_uplinkset_by_type(mapping, t, lookup_failed[t])]

\* What the fabric answers to the lookups of one construction of the index.
LookupOracles ==
    [{NETWORK_TYPE_TAGGED, NETWORK_TYPE_UNTAGGED} -> SUBSET Uplinksets]
NoLookupFailure ==
    [t \in {NETWORK_TYPE_TAGGED, NETWORK_TYPE_UNTAGGED} |-> {}]

----------------------------------------------------------------------------
(* Network: the mapping policy *)

_NEUTRON_NET_TYPE_TO_ONEVIEW_NET_TYPE(network_type) ==
    IF network_type = "flat" THEN "untagged" ELSE "tagged"

\* dict.get(key) is truthy: the key is present with a non-empty value.
Truthy(dict, key) == key \in DOMAIN dict /\ dict[key] # <<>>

_is_physnet_in_uplinkset_mapping(physical_network) ==
    IF Truthy(physnet_uplinkset_mapping[NETWORK_TYPE_TAGGED], physical_network)
    THEN TRUE
    ELSE Truthy(physnet_uplinkset_mapping[NETWORK_TYPE_UNTAGGED],
                physical_network)

_is_physical_network_managed(physical_network) ==
    \/ _is_physnet_in_uplinkset_mapping(physical_network)
    \/ physical_network \in DOMAIN flat_physnet_net_mapping

\* (Mutant: the flat table is consulted before the vlan rule.)
_get_network_mapping_type_flat_first(physical_network, network_type) ==
    IF physical_network \in DOMAIN flat_physnet_net_mapping
    THEN FLAT_PHYSNET_NET_MAPPING_TYPE
    ELSE IF _is_physnet_in_uplinkset_mapping(physical_network)
    THEN PHYSNET_UPLINKSET_MAPPING_TYPE
    ELSE MAPPING_TYPE_NONE

_get_network_mapping_type(physical_network, network_type) ==
    LET physnet_in_uplinkset_mapping ==
            _is_physnet_in_uplinkset_mapping(physical_network)
    IN  IF network_type = "vlan" /\ physnet_in_uplinkset_mapping
        THEN PHYSNET_UPLINKSET_MAPPING_TYPE
        ELSE IF physical_network \in DOMAIN flat_physnet_net_mapping
        THEN FLAT_PHYSNET_NET_MAPPING_TYPE
        ELSE IF physnet_in_uplinkset_mapping
        THEN PHYSNET_UPLINKSET_MAPPING_TYPE
        ELSE MAPPING_TYPE_NONE

----------------------------------------------------------------------------
(* Mapping store accessor (db_manager) *)

\* get_neutron_oneview_network(session, id) is not None
HasRow(st, n) == n \in DOMAIN st.rows

\* get_network_uplinksets(session, fabric network): the uplink sets of its
\* binding rows, in the store's order.
get_network_uplinksets(st, ov) ==
    OrderedFrom(UplinksetSeq, {u \in Uplinksets : <<ov, u>> \in st.bindings})

\* map_neutron_network_to_oneview(session, id, fabric network, ids, manageable)
map_neutron_network_to_oneview(st, n, ov, uplinksets_id_list, manageable) ==
    [st EXCEPT
        !.rows = [m \in DOMAIN st.rows \cup {n} |->
                    IF m = n
                    THEN [oneview_network_id |-> ov, manageable |-> manageable]
                    ELSE st.rows[m]],
        !.bindings = @ \cup {<<ov, uplinksets_id_list[i]>> :
                                i \in 1..Len(uplinksets_id_list)}]

\* delete_neutron_oneview_network(session, id)
delete_neutron_oneview_network(st, n) ==
    [st EXCEPT !.rows = [m \in DOMAIN st.rows \ {n} |-> st.rows[m]]]

\* delete_oneview_network_uplinkset_by_network(session, fabric network)
delete_oneview_network_uplinkset_by_network(st, ov) ==
    [st EXCEPT !.bindings = {b \in @ : b[1] # ov}]

\* list_networks_and_segments_with_physnet(session)
list_networks_and_segments_with_physnet ==
    OrderedFrom(NetSeq,
                {n \in declared : segments[n].physical_network # NoPhysnet})

\* list_neutron_networks(session)
list_neutron_networks == OrderedFrom(NetSeq, declared)

----------------------------------------------------------------------------
(* Network *)

\* Network._add_network_to_uplink_sets: one attach per id; a fabric error is
\* logged and the loop goes on.
RECURSIVE _add_network_to_uplink_sets(_, _, _, _)
_add_network_to_uplink_sets(st, network_id, uplinksets_id_list, fl) ==
    IF uplinksets_id_list = <<>> THEN Outcome(st, <<>>, "none", 0)
    ELSE LET u == Head(uplinksets_id_list)
             ok == u \notin fl.us
             st1 == IF ok
                    THEN [st EXCEPT !.attached = @ \cup {<<network_id, u>>}]
                    ELSE st
             rest == _add_network_to_uplink_sets(
                         st1, network_id, Tail(uplinksets_id_list), fl)
         IN  Outcome(rest.st,
                     <<Call("attach", network_id, u, "-", "-", ok)>>
                         \o rest.calls,
                     "none", 0)

\* The manageable flag Network.create persists.  (Mutant: every mapping is
\* persisted as manageable.)
Manageable_always(mapping_type) == TRUE

Manageable(mapping_type) == mapping_type = PHYSNET_UPLINKSET_MAPPING_TYPE

\* ethernet_networks.create raised in Network.create: nothing catches it and
\* nothing after it runs.  (Mutant: the mapping is persisted all the same.)
FabricCreateRaised_persisted(st, n, ov_type, mapping_type) ==
    Outcome(map_neutron_network_to_oneview(st, n, "None", <<>>, TRUE),
            <<Call("create", "-", "-", n, ov_type, FALSE)>>,
            "HPOneViewException", mapping_type)

FabricCreateRaised(st, n, ov_type, mapping_type) ==
    Outcome(st, <<Call("create", "-", "-", n, ov_type, FALSE)>>,
            "HPOneViewException", mapping_type)

\* Network.create(session, network_dict) for logical network n
Network_create(st, n, fl) ==
    LET physical_network == segments[n].physical_network
        network_type == segments[n].network_type
        network_seg_id == segmentation_id(segments[n])
    IN
    IF ~_is_physical_network_managed(physical_network)
    THEN Outcome(st, <<>>, "none", MAPPING_TYPE_NONE)
    ELSE
    LET mapping_type ==
            _get_network_mapping_type(physical_network, network_type)
    IN
    IF mapping_type = MAPPING_TYPE_NONE
    THEN Outcome(st, <<>>, "none", mapping_type)
    ELSE IF mapping_type = PHYSNET_UPLINKSET_MAPPING_TYPE
    THEN
        LET table == physnet_uplinkset_mapping[
                        _NEUTRON_NET_TYPE_TO_ONEVIEW_NET_TYPE(network_type)]
            ov_type == IF network_seg_id # 0 THEN "Tagged" ELSE "Untagged"
            oneview_network_id == NewFabricId(st.created)
            st1 == [st EXCEPT !.created = @ \cup {oneview_network_id}]
        IN
        IF n \in fl.nets
        THEN FabricCreateRaised(st, n, ov_type, mapping_type)
        ELSE IF physical_network \notin DOMAIN table
        THEN \* uplinksets_id_list is None: the attach loop raises
             Outcome(st1,
                     <<Call("create", oneview_network_id, "-", n, ov_type,
                            TRUE)>>,
                     "TypeError", mapping_type)
        ELSE
            LET uplinksets_id_list == table[physical_network]
                added == _add_network_to_uplink_sets(
                             st1, oneview_network_id, uplinksets_id_list, fl)
            IN  Outcome(
                    map_neutron_network_to_oneview(
                        added.st, n, oneview_network_id, uplinksets_id_list,
                        Manageable(mapping_type)),
                    <<Call("create", oneview_network_id, "-", n, ov_type,
                           TRUE)>> \o added.calls,
                    "none", mapping_type)
    ELSE \* FLAT_PHYSNET_NET_MAPPING_TYPE
        Outcome(
            map_neutron_network_to_oneview(
                st, n, flat_physnet_net_mapping[physical_network], <<>>,
                Manageable(mapping_type)),
            <<>>, "none", mapping_type)

\* Whether Network.delete deletes the fabric network of a row.  (Mutant: the
\* manageable flag is not consulted.)
DeletesFabricNetwork_always(row) == TRUE

DeletesFabricNetwork(row) == row.manageable

\* The rows Network.delete removes once the fabric network is dealt with.
RemoveMapping(st, n, oneview_network_id) ==
    delete_oneview_network_uplinkset_by_network(
        delete_neutron_oneview_network(st, n), oneview_network_id)

\* ethernet_networks.delete raised in Network.delete: nothing catches it.
\* (Mutant: the error is swallowed and the rows are removed all the same.)
FabricDeleteRaised_swallowed(st, n, oneview_network_id) ==
    Outcome(RemoveMapping(st, n, oneview_network_id),
            <<Call("delete", oneview_network_id, "-", "-", "-", FALSE)>>,
            "none", 0)

FabricDeleteRaised(st, n, oneview_network_id) ==
    Outcome(st,
            <<Call("delete", oneview_network_id, "-", "-", "-", FALSE)>>,
            "HPOneViewException", 0)

\* Network.delete(session, network_dict) for logical network n
Network_delete(st, n, fl) ==
    IF ~HasRow(st, n)
    THEN Outcome(st, <<>>, "none", 0)
    ELSE
    LET oneview_network_id == st.rows[n].oneview_network_id
        removed == RemoveMapping(st, n, oneview_network_id)
    IN
    IF DeletesFabricNetwork(st.rows[n])
    THEN IF n \in fl.nets
         THEN FabricDeleteRaised(st, n, oneview_network_id)
         ELSE Outcome(
                  [removed EXCEPT
                      !.attached = {b \in @ : b[1] # oneview_network_id}],
                  <<Call("delete", oneview_network_id, "-", "-", "-", TRUE)>>,
                  "none", 0)
    ELSE Outcome(removed, <<>>, "none", 0)

----------------------------------------------------------------------------
(* The uplink-set manager reached as client.uplinkset *)

\* uplinkset.remove_network(session, uplinkset_id, network_id): detach on the
\* fabric, then delete the binding row; a fabric error is logged and the row
\* stays.
UplinkSet_remove_network(st, uplinkset_id, network_id, fl) ==
    LET ok == uplinkset_id \notin fl.us
    IN  Outcome(
            IF ok
            THEN [st EXCEPT
                    !.bindings = @ \ {<<network_id, uplinkset_id>>},
                    !.attached = @ \ {<<network_id, uplinkset_id>>}]
            ELSE st,
            <<Call("detach", network_id, uplinkset_id, "-", "-", ok)>>,
            "none", 0)

\* uplinkset.add_network(session, uplinkset_id, network_id): attach on the
\* fabric, then insert the binding row; a fabric error is logged and no row
\* is inserted.
UplinkSet_add_network(st, uplinkset_id, network_id, fl) ==
    LET ok == uplinkset_id \notin fl.us
    IN  Outcome(
            IF ok
            THEN [st EXCEPT
                    !.bindings = @ \cup {<<network_id, uplinkset_id>>},
                    !.attached = @ \cup {<<network_id, uplinkset_id>>}]
            ELSE st,
            <<Call("attach", network_id, uplinkset_id, "-", "-", ok)>>,
            "none", 0)

\* uplinkset.get_uplinkset_by_type(uplinkset_list, network_type), called with
\* the configured list of the physical network: the ids of the list that the
\* index holds under the segment's type.
UplinkSet_get_uplinkset_by_type(physical_network, network_type) ==
    LET table == physnet_uplinkset_mapping[
                    _NEUTRON_NET_TYPE_TO_ONEVIEW_NET_TYPE(network_type)]
    IN  IF physical_network \in DOMAIN uplinkset_mappings_dict
           /\ physical_network \in DOMAIN table
        THEN SelectSeq(uplinkset_mappings_dict[physical_network],
                       LAMBDA u : InList(u, table[physical_network]))
        ELSE <<>>

----------------------------------------------------------------------------
(* InitSync: pass 1, check_and_sync_mapped_uplinksets_on_db *)

\* the tests of the two inner loops.  (Mutant of the second: every configured
\* id is attached, bound or not.)
NeedsDetach(uplinkset_id, physical_network_uplinkset_list) ==
    ~InList(uplinkset_id, physical_network_uplinkset_list)

NeedsAttach_always(uplinkset_id, network_uplinkset_list) == TRUE

NeedsAttach(uplinkset_id, network_uplinkset_list) ==
    ~InList(uplinkset_id, network_uplinkset_list)

\* the first inner loop: detach every bound id the configuration lacks
RECURSIVE RemoveLoop(_, _, _, _, _)
RemoveLoop(st, network_uplinkset_list, physical_network_uplinkset_list, oneview_network_id, fl) ==
    IF network_uplinkset_list = <<>> THEN Outcome(st, <<>>, "none", 0)
    ELSE LET u == Head(network_uplinkset_list)
             one == IF NeedsDetach(u, physical_network_uplinkset_list)
                    THEN UplinkSet_remove_network(st, u, oneview_network_id, fl)
                    ELSE Outcome(st, <<>>, "none", 0)
             rest == RemoveLoop(one.st, Tail(network_uplinkset_list),
                                physical_network_uplinkset_list,
                                oneview_network_id, fl)
         IN  Outcome(rest.st, one.calls \o rest.calls, "none", 0)

\* the second inner loop: attach every configured id that was not bound.
\* (Mutant: the loop ends after the first configured id.)
AddLoop_first_only(st, physical_network_uplinkset_list, network_uplinkset_list, oneview_network_id, fl) ==
    IF physical_network_uplinkset_list = <<>> THEN Outcome(st, <<>>, "none", 0)
    ELSE IF NeedsAttach(Head(physical_network_uplinkset_list),
                        network_uplinkset_list)
    THEN UplinkSet_add_network(st, Head(physical_network_uplinkset_list),
                               oneview_network_id, fl)
    ELSE Outcome(st, <<>>, "none", 0)

RECURSIVE AddLoop(_, _, _, _, _)
AddLoop(st, physical_network_uplinkset_list, network_uplinkset_list, oneview_network_id, fl) ==
    IF physical_network_uplinkset_list = <<>> THEN Outcome(st, <<>>, "none", 0)
    ELSE LET u == Head(physical_network_uplinkset_list)
             one == IF NeedsAttach(u, network_uplinkset_list)
                    THEN UplinkSet_add_network(st, u, oneview_network_id, fl)
                    ELSE Outcome(st, <<>>, "none", 0)
             rest == AddLoop(one.st, Tail(physical_network_uplinkset_list),
                             network_uplinkset_list, oneview_network_id, fl)
         IN  Outcome(rest.st, one.calls \o rest.calls, "none", 0)

\* the body of the outer loop for one (network, segment)
SyncUplinksetsOf(st, n, fl) ==
    LET physical_network == segments[n].physical_network
    IN
    IF physical_network \notin DOMAIN uplinkset_mappings_dict
    THEN Outcome(st, <<>>, "none", 0)                    \* continue
    ELSE IF ~HasRow(st, n)
    THEN \* neutron_oneview_network is None and its attribute is read
         Outcome(st, <<>>, "AttributeError", 0)
    ELSE
    LET physical_network_uplinkset_list ==
            uplinkset_mappings_dict[physical_network]
        oneview_network_id == st.rows[n].oneview_network_id
        network_uplinkset_list == get_network_uplinksets(st, oneview_network_id)
        removed == RemoveLoop(st, network_uplinkset_list,
                              physical_network_uplinkset_list,
                              oneview_network_id, fl)
        added == AddLoop(removed.st, physical_network_uplinkset_list,
                         network_uplinkset_list, oneview_network_id, fl)
    IN  Outcome(added.st, removed.calls \o added.calls, "none", 0)

\* A pass's outcome: as a handler's, with the networks whose loop body began.
PassOutcome(st, calls, raised, visited) ==
    [st |-> st, calls |-> calls, raised |-> raised, visited |-> visited]

RECURSIVE check_and_sync_mapped_uplinksets_on_db(_, _, _)
check_and_sync_mapped_uplinksets_on_db(st, networks, fl) ==
    IF networks = <<>> THEN PassOutcome(st, <<>>, "none", <<>>)
    ELSE LET n == Head(networks)
             one == SyncUplinksetsOf(st, n, fl)
         IN  IF one.raised # "none"
             THEN PassOutcome(one.st, one.calls, one.raised, <<n>>)
             ELSE LET rest == check_and_sync_mapped_uplinksets_on_db(
                                  one.st, Tail(networks), fl)
                  IN  PassOutcome(rest.st, one.calls \o rest.calls,
                                  rest.raised, <<n>> \o rest.visited)

----------------------------------------------------------------------------
(* InitSync: pass 2, check_mapped_networks_on_db_and_create_on_oneview *)

\* the body of the loop for one logical network
CreateOnOneviewOf(st, n, fl) ==
    LET segment == segments[n]
    IN
    IF HasRow(st, n) \/ segment.physical_network = NoPhysnet
    THEN Outcome(st, <<>>, "none", 0)                    \* continue
    ELSE
    LET uplinkset_id_list ==
            UplinkSet_get_uplinkset_by_type(segment.physical_network,
                                            segment.network_type)
    IN  IF Len(uplinkset_id_list) > 0
        THEN Network_create(st, n, fl)
        ELSE Outcome(st, <<>>, "none", 0)                \* warning

RECURSIVE check_mapped_networks_on_db_and_create_on_oneview(_, _, _)
check_mapped_networks_on_db_and_create_on_oneview(st, networks, fl) ==
    IF networks = <<>> THEN PassOutcome(st, <<>>, "none", <<>>)
    ELSE LET n == Head(networks)
             one == CreateOnOneviewOf(st, n, fl)
         IN  IF one.raised # "none"
             THEN PassOutcome(one.st, one.calls, one.raised, <<n>>)
             ELSE LET rest ==
                          check_mapped_networks_on_db_and_create_on_oneview(
                              one.st, Tail(networks), fl)
                  IN  PassOutcome(rest.st, one.calls \o rest.calls,
                                  rest.raised, <<n>> \o rest.visited)

----------------------------------------------------------------------------
(* Port: inputs and the fabric's server hardware *)

\* How many connections the server profile holds at most.
MaxConnections == 3

\* MAC addresses as the tenant controller gives them, and str.upper() on them.
MacAddresses == {"aa:01", "AA:02", "aa:09"}
Upper(s) ==
    CASE s = "aa:01" -> "AA:01"
      [] s = "aa:02" -> "AA:02"
      [] s = "aa:09" -> "AA:09"
      [] OTHER -> s

\* The server hardware the fabric knows; server_hardware.get raises for any
\* other id.
ServerHardware == {"SH1"}

\* portMap of a server hardware, flattened in the order the nested loops of
\* get_port_info visit it: device slots, physical ports, virtual ports.
PortMap(server_hardware_id) ==
    <<[mac |-> "AA:01", portFunction |-> "a", portNumber |-> "1",
       slotNumber |-> "1", location |-> "Mezz"],
      [mac |-> "AA:02", portFunction |-> "b", portNumber |-> "1",
       slotNumber |-> "1", location |-> "Mezz"]>>

\* binding:vnic_type values
VnicTypes == {"baremetal", "normal"}

\* local_link_information lists: dicts are functions whose domain is the keys
\* present; bootable is "True" or "False" when it is a boolean.
SwitchInfo(server_hardware_id, bootable) ==
    [server_hardware_id |-> server_hardware_id, bootable |-> bootable]
LinkInfo(switch_info) == [port_id |-> "p", switch_info |-> switch_info]
WellFormedLinkLists ==
    {<<LinkInfo(SwitchInfo("SH1", "True"))>>,
     <<LinkInfo(SwitchInfo("SH1", "False"))>>,
     <<LinkInfo(SwitchInfo("SH9", "True"))>>}
MalformedLinkLists ==
    {<<>>,
     <<[port_id |-> "p"]>>,
     <<LinkInfo([bootable |-> "True"])>>,
     <<LinkInfo([server_hardware_id |-> "SH1"])>>,
     <<LinkInfo(SwitchInfo("SH1", "yes"))>>,
     <<LinkInfo(SwitchInfo("SH1", "True")), LinkInfo(SwitchInfo("SH1", "True"))>>}

\* port_dict values: bare-metal ports of a mapped network with well-formed
\* link information, and ports that differ from one of them in one respect
\* (vnic type, network, link information).
Ports ==
    [vnic_type : {"baremetal"}, network_id : {"n1"},
     mac_address : MacAddresses,
     local_link_information : WellFormedLinkLists]
    \cup [vnic_type : VnicTypes, network_id : NetIds,
          mac_address : {"aa:01"},
          local_link_information : {<<LinkInfo(SwitchInfo("SH1", "True"))>>}]
    \cup [vnic_type : {"baremetal"}, network_id : {"n1"},
          mac_address : {"aa:01"},
          local_link_information : MalformedLinkLists]

\* The fabric call of one Port handler run that fails, if any.
PortCallNames ==
    {"server_hardware.get", "server_profiles.get", "port_map.get",
     "server_profiles.update"}
PortOracles == {"none"} \cup PortCallNames

\* One fabric call of a Port handler as the history records it.
PortCall(kind, failing) == [kind |-> kind, ok |-> kind # failing]

\* A Port handler's outcome: the profile the fabric holds afterwards, the
\* fabric calls made, the exception raised, the boot priority computed.
PortOutcome(connections, calls, raised, priority) ==
    [connections |-> connections, calls |-> calls, raised |-> raised,
     priority |-> priority]

----------------------------------------------------------------------------
(* Port *)

validate_local_link_information(local_link_information_list) ==
    IF local_link_information_list = <<>> THEN FALSE
    ELSE IF Len(local_link_information_list) > 1 THEN FALSE
    ELSE
    LET local_link_information == local_link_information_list[1]
    IN
    IF "switch_info" \notin DOMAIN local_link_information THEN FALSE
    ELSE
    LET switch_info == local_link_information.switch_info
    IN
    IF \/ "server_hardware_id" \notin DOMAIN switch_info
       \/ "bootable" \notin DOMAIN switch_info
    THEN FALSE
    ELSE IF switch_info.bootable \notin {"True", "False"} THEN FALSE
    ELSE TRUE

\* (Mutant: the vnic type is not consulted.)
is_port_valid_to_reflect_on_oneview_any_vnic(vnic_type, has_network, local_link_information_list) ==
    IF ~has_network THEN FALSE
    ELSE validate_local_link_information(local_link_information_list)

is_port_valid_to_reflect_on_oneview(vnic_type, has_network, local_link_information_list) ==
    IF vnic_type # "baremetal" THEN FALSE
    ELSE IF ~has_network THEN FALSE
    ELSE validate_local_link_information(local_link_information_list)

\* common.network_uri_from_id
network_uri_from_id(oneview_network_id) ==
    "/rest/ethernet-networks/" \o oneview_network_id

\* (Mutant: a boot priority is always taken to be available.)
is_boot_priority_available_always(connections, boot_priority) == TRUE

is_boot_priority_available(connections, boot_priority) ==
    \A i \in 1..Len(connections) : connections[i].priority # boot_priority

\* (Mutant: a bootable port is always given Primary.)
_get_boot_priority_primary(connections, bootable) ==
    IF bootable THEN "Primary" ELSE "NotBootable"

_get_boot_priority(connections, bootable) ==
    IF bootable
    THEN IF is_boot_priority_available(connections, "Primary")
         THEN "Primary"
         ELSE IF is_boot_priority_available(connections, "Secondary")
         THEN "Secondary"
         ELSE "NotBootable"
    ELSE "NotBootable"

\* get_port_info: the first virtual port whose mac is the port's, uppercased;
\* <<>> stands for None.
get_port_info(server_hardware_id, mac_address) ==
    SelectSeq(PortMap(server_hardware_id),
              LAMBDA virtual_port : virtual_port.mac = Upper(mac_address))

\* the string _port_id_from_mac builds from a port info
PortIdString(port_info) ==
    port_info.location \o " " \o port_info.slotNumber \o ":"
        \o port_info.portNumber \o "-" \o port_info.portFunction

\* server_profiles.update with one more connection: the fabric keeps the
\* profile pushed, or raises and keeps the one it had.
PushConnection(connections, calls, connection, failing) ==
    LET update == PortCall("server_profiles.update", failing)
    IN  IF update.ok
        THEN PortOutcome(Append(connections, connection),
                         Append(calls, update), "none", connection.priority)
        ELSE PortOutcome(connections, Append(calls, update),
                         "HPOneViewException", connection.priority)

\* get_port_info returned None and _port_id_from_mac reads it.  (Mutant: the
\* missing port info is formatted into a port id and the profile is pushed.)
PortInfoMissing_formatted(connections, calls, network_uri, boot_priority, failing) ==
    PushConnection(connections, calls,
                   [portId |-> "None None:None-None",
                    networkUri |-> network_uri,
                    priority |-> boot_priority, mac |-> "-"],
                   failing)

PortInfoMissing(connections, calls, network_uri, boot_priority, failing) ==
    PortOutcome(connections, calls, "AttributeError", boot_priority)

\* Port.create(session, port_dict) against the profile the fabric holds
Port_create(connections, st, port_dict, failing) ==
    IF ~is_port_valid_to_reflect_on_oneview(
            port_dict.vnic_type, HasRow(st, port_dict.network_id),
            port_dict.local_link_information)
    THEN PortOutcome(connections, <<>>, "none", "-")
    ELSE
    LET switch_info == port_dict.local_link_information[1].switch_info
        server_hardware_id == switch_info.server_hardware_id
        bootable == switch_info.bootable = "True"
        network_uri == network_uri_from_id(
                           st.rows[port_dict.network_id].oneview_network_id)
        known == server_hardware_id \in ServerHardware
        sh_get == [PortCall("server_hardware.get", failing) EXCEPT
                      !.ok = @ /\ known]
        sp_get == PortCall("server_profiles.get", failing)
        pm_get == PortCall("port_map.get", failing)
        boot_priority == _get_boot_priority(connections, bootable)
        port_info == get_port_info(server_hardware_id, port_dict.mac_address)
    IN
    IF ~sh_get.ok
    THEN PortOutcome(connections, <<sh_get>>, "HPOneViewException", "-")
    ELSE IF ~sp_get.ok
    THEN PortOutcome(connections, <<sh_get, sp_get>>, "HPOneViewException",
                     "-")
    ELSE IF ~pm_get.ok
    THEN PortOutcome(connections, <<sh_get, sp_get, pm_get>>,
                     "HPOneViewException", boot_priority)
    ELSE IF port_info = <<>>
    THEN PortInfoMissing(connections, <<sh_get, sp_get, pm_get>>, network_uri,
                         boot_priority, failing)
    ELSE PushConnection(connections, <<sh_get, sp_get, pm_get>>,
                        [portId |-> PortIdString(port_info[1]),
                         networkUri |-> network_uri,
                         priority |-> boot_priority,
                         mac |-> port_info[1].mac],
                        failing)

\* connection_with_mac_address: the index of the first connection whose mac
\* is the port's (0 stands for None)
connection_with_mac_address(connections, mac_address) ==
    IF \E i \in 1..Len(connections) : connections[i].mac = mac_address
    THEN CHOOSE i \in 1..Len(connections) :
            /\ connections[i].mac = mac_address
            /\ \A j \in 1..(i - 1) : connections[j].mac # mac_address
    ELSE 0

\* list.remove of the connection at index i
RemoveAt(connections, i) ==
    [j \in 1..(Len(connections) - 1) |->
        IF j < i THEN connections[j] ELSE connections[j + 1]]

\* Port.delete(session, port_dict) against the profile the fabric holds
Port_delete(connections, st, port_dict, failing) ==
    IF ~is_port_valid_to_reflect_on_oneview(
            port_dict.vnic_type, HasRow(st, port_dict.network_id),
            port_dict.local_link_information)
    THEN PortOutcome(connections, <<>>, "none", "-")
    ELSE
    LET switch_info == port_dict.local_link_information[1].switch_info
        server_hardware_id == switch_info.server_hardware_id
        known == server_hardware_id \in ServerHardware
        sh_get == [PortCall("server_hardware.get", failing) EXCEPT
                      !.ok = @ /\ known]
        sp_get == PortCall("server_profiles.get", failing)
        update == PortCall("server_profiles.update", failing)
        connection ==
            connection_with_mac_address(connections, port_dict.mac_address)
        remaining == IF connection # 0
                     THEN RemoveAt(connections, connection)
                     ELSE connections
    IN
    IF ~sh_get.ok
    THEN PortOutcome(connections, <<sh_get>>, "HPOneViewException", "-")
    ELSE IF ~sp_get.ok
    THEN PortOutcome(connections, <<sh_get, sp_get>>, "HPOneViewException",
                     "-")
    ELSE IF ~update.ok
    THEN PortOutcome(connections, <<sh_get, sp_get, update>>,
                     "HPOneViewException", "-")
    ELSE PortOutcome(remaining, <<sh_get, sp_get, update>>, "none", "-")

----------------------------------------------------------------------------
(* The state machine *)

\* What lastOp records of a handler run.  afterSync is kept for pass 2 only:
\* how the pass 1 that ran directly before it ended, when that pass had no
\* failing fabric call ("-" otherwise).
Log(op, net, out, visited, hadRow) ==
    [op |-> op, net |-> net, calls |-> out.calls, raised |-> out.raised,
     visited |-> visited, hadRow |-> hadRow,
     mapping_type |-> out.mapping_type,
     afterSync |->
        IF /\ op = "create_networks"
           /\ lastOp.op = "sync_uplinksets"
           /\ \A i \in 1..Len(lastOp.calls) : lastOp.calls[i].ok
        THEN lastOp.raised ELSE "-"]

NoOp == [op |-> "none", net |-> "-", calls |-> <<>>, raised |-> "none",
         visited |-> <<>>, hadRow |-> FALSE,
         mapping_type |-> 0, afterSync |-> "-"]

\* The fabric networks the mapping store still refers to.
Referenced(st) ==
    {st.rows[n].oneview_network_id : n \in DOMAIN st.rows}
    \cup {b[1] : b \in st.bindings}

\* A handler's store becomes the state.  The history keeps what the store
\* still refers to: a created fabric network no row names is forgotten, and
\* so is an attachment that has no binding row.
Commit(st) ==
    /\ Cardinality(st.created) <= MaxOvNets
    /\ rows' = st.rows
    /\ bindings' = st.bindings
    /\ attached' = st.attached \cap st.bindings
    /\ created' = st.created \cap Referenced(st)

\* InitSync.__init__ and Client.__init__: the configuration is loaded and the
\* index by type is built (every uplink-set lookup answered).
LoadConfiguration(mapping, flat) ==
    /\ uplinkset_mappings_dict' = mapping
    /\ physnet_uplinkset_mapping' =
           _physnet_uplinkset_mapping_by_type(mapping, NoLookupFailure)
    /\ flat_physnet_net_mapping' = flat

Init ==
    /\ \E mapping \in RawMappings, flat \in FlatMappings :
        /\ uplinkset_mappings_dict = mapping
        /\ physnet_uplinkset_mapping =
               _physnet_uplinkset_mapping_by_type(mapping, NoLookupFailure)
        /\ flat_physnet_net_mapping = flat
    /\ segments \in [NetIds -> Segments]
    /\ declared = NetIds
    /\ rows = <<>>
    /\ bindings = {}
    /\ attached = {}
    /\ created = {}
    /\ lastOp = NoOp
    /\ restarts = 0
    /\ server_profile = <<>>
    /\ port_events = <<>>

\* The tenant controller's network-created event: Network.create.
NetworkCreate(n) ==
    /\ n \in declared
    /\ \E fl \in Oracles({n}, Uplinksets) :
        LET out == Network_create(Store, n, fl)
        IN  /\ Commit(out.st)
            /\ lastOp' = Log("network_create", n, out, <<n>>,
                             HasRow(Store, n))
    /\ UNCHANGED <<conf, segments, declared, restarts, server_profile,
                   port_events>>

\* The tenant controller's network-deleted event: Network.delete; the
\* controller no longer lists the network afterwards.
NetworkDelete(n) ==
    /\ n \in declared \/ n \in DOMAIN rows
    /\ \E fl \in Oracles({n}, {}) :
        LET out == Network_delete(Store, n, fl)
        IN  /\ Commit(out.st)
            /\ lastOp' = Log("network_delete", n, out, <<n>>,
                             HasRow(Store, n))
    /\ declared' = declared \ {n}
    /\ UNCHANGED <<conf, segments, restarts, server_profile, port_events>>

\* Periodic pass 1.
SyncUplinksets ==
    /\ \E fl \in Oracles({}, Uplinksets) :
        LET networks == list_networks_and_segments_with_physnet
            out == check_and_sync_mapped_uplinksets_on_db(Store, networks, fl)
        IN  /\ Commit(out.st)
            /\ lastOp' = Log("sync_uplinksets", "-",
                             [out EXCEPT !.visited = 0] @@ [mapping_type |-> 0],
                             out.visited, FALSE)
    /\ UNCHANGED <<conf, segments, declared, restarts, server_profile,
                   port_events>>

\* Periodic pass 2.
CreateMissingNetworks ==
    /\ \E fl \in Oracles(declared, Uplinksets) :
        LET networks == list_neutron_networks
            out == check_mapped_networks_on_db_and_create_on_oneview(
                       Store, networks, fl)
        IN  /\ Commit(out.st)
            /\ lastOp' = Log("create_networks", "-",
                             [out EXCEPT !.visited = 0] @@ [mapping_type |-> 0],
                             out.visited, FALSE)
    /\ UNCHANGED <<conf, segments, declared, restarts, server_profile,
                   port_events>>

\* The operator edits the configuration and the service restarts.
Restart ==
    /\ restarts < MaxRestarts
    /\ restarts' = restarts + 1
    /\ \E mapping \in RawMappings, flat \in FlatMappings :
        /\ <<mapping, flat>> #
               <<uplinkset_mappings_dict, flat_physnet_net_mapping>>
        /\ LoadConfiguration(mapping, flat)
    /\ lastOp' = NoOp
    /\ UNCHANGED <<segments, declared, rows, bindings, attached, created,
                   server_profile, port_events>>

\* One lifetime of the service: network events and the periodic passes.
Next ==
    \/ \E n \in NetIds : NetworkCreate(n)
    \/ \E n \in NetIds : NetworkDelete(n)
    \/ SyncUplinksets
    \/ CreateMissingNetworks

Spec == Init /\ [][Next]_vars

\* The periodic sync engine as the only writer, across a reconfiguration.
NextSync ==
    \/ SyncUplinksets
    \/ CreateMissingNetworks
    \/ Restart

SpecSync == Init /\ [][NextSync]_vars

\* The profile the fabric holds before this system touches it: connections
\* made by other means, with at most one Primary and one Secondary.
OtherConnection(priority) ==
    [portId |-> "Flb 1:1-a", networkUri |-> network_uri_from_id("F0"),
     priority |-> priority, mac |-> "AA:0F"]
InitialProfiles ==
    {<<>>, <<OtherConnection("Primary")>>, <<OtherConnection("Secondary")>>,
     <<OtherConnection("Primary"), OtherConnection("Secondary")>>}

\* What lastOp records of a Port handler run.
PortLog(op, port_dict, out) ==
    [op |-> op, port |-> port_dict, calls |-> out.calls,
     raised |-> out.raised, priority |-> out.priority]

\* The port events reach a service whose mapping store holds one mapped
\* logical network (n1, created on the fabric as ov1) and one unmapped (n2).
MappedNetworkService ==
    /\ uplinkset_mappings_dict = [p \in {"physnetA"} |-> <<"U1", "U2">>]
    /\ physnet_uplinkset_mapping =
           _physnet_uplinkset_mapping_by_type(uplinkset_mappings_dict,
                                              NoLookupFailure)
    /\ flat_physnet_net_mapping = <<>>
    /\ segments =
           [n \in NetIds |->
               IF n = "n1"
               THEN [physical_network |-> "physnetA", network_type |-> "vlan"]
               ELSE [physical_network |-> NoPhysnet, network_type |-> "vxlan"]]
    /\ declared = NetIds
    /\ rows = [n \in {"n1"} |->
                  [oneview_network_id |-> FabricId(1), manageable |-> TRUE]]
    /\ bindings = {<<FabricId(1), "U1">>, <<FabricId(1), "U2">>}
    /\ attached = bindings
    /\ created = {FabricId(1)}
    /\ lastOp = NoOp
    /\ restarts = 0
    /\ server_profile \in InitialProfiles

InitPort ==
    /\ MappedNetworkService
    /\ port_events = <<>>

\* The tenant controller's port-created event: Port.create.
PortCreate(port_dict) ==
    /\ Len(server_profile) < MaxConnections
    /\ \E failing \in PortOracles :
        LET out == Port_create(server_profile, Store, port_dict, failing)
        IN  /\ server_profile' = out.connections
            /\ lastOp' = PortLog("port_create", port_dict, out)
    /\ UNCHANGED <<conf, segments, declared, rows, bindings, attached,
                   created, restarts, port_events>>

\* The tenant controller's port-deleted event: Port.delete.
PortDelete(port_dict) ==
    /\ \E failing \in PortOracles \ {"port_map.get"} :
        LET out == Port_delete(server_profile, Store, port_dict, failing)
        IN  /\ server_profile' = out.connections
            /\ lastOp' = PortLog("port_delete", port_dict, out)
    /\ UNCHANGED <<conf, segments, declared, rows, bindings, attached,
                   created, restarts, port_events>>

\* Port events, one at a time.
NextPort ==
    \/ \E port_dict \in Ports : PortCreate(port_dict)
    \/ \E port_dict \in Ports : PortDelete(port_dict)

SpecPort == InitPort /\ [][NextPort]_vars

\* Two port-created events for different MACs on one server hardware, each
\* handled by its own run of Port.create.
PortEventIds == {"e1", "e2"}
RacingPorts ==
    [vnic_type : {"baremetal"}, network_id : {"n1"},
     mac_address : MacAddresses,
     local_link_information :
        {<<LinkInfo(SwitchInfo("SH1", "True"))>>,
         <<LinkInfo(SwitchInfo("SH1", "False"))>>}]

\* A handler's state: where it is in Port.create and the server profile it
\* fetched.
PortEvent(port_dict, pc, fetched) ==
    [port |-> port_dict, pc |-> pc, server_profile |-> fetched]

InitPortRace ==
    /\ MappedNetworkService
    /\ \E ports \in [PortEventIds -> RacingPorts] :
        /\ ports["e1"].mac_address # ports["e2"].mac_address
        /\ port_events =
               [e \in PortEventIds |-> PortEvent(ports[e], "start", <<>>)]

\* Port.create up to _server_profile_from_server_hardware: the gate, and the
\* profile is fetched from the fabric.
PortCreateFetch(e) ==
    /\ port_events[e].pc = "start"
    /\ port_events' =
           [port_events EXCEPT ![e] =
               IF is_port_valid_to_reflect_on_oneview(
                      @.port.vnic_type, HasRow(Store, @.port.network_id),
                      @.port.local_link_information)
               THEN PortEvent(@.port, "fetched", server_profile)
               ELSE PortEvent(@.port, "done", <<>>)]
    /\ UNCHANGED <<conf, segments, declared, rows, bindings, attached,
                   created, restarts, server_profile, lastOp>>

\* Port.create from _get_boot_priority on: the connection is appended to the
\* fetched profile, which is pushed whole to the fabric.
PortCreatePush(e) ==
    /\ port_events[e].pc = "fetched"
    /\ LET out == Port_create(port_events[e].server_profile, Store,
                              port_events[e].port, "none")
       IN  /\ server_profile' = IF out.raised = "none"
                                THEN out.connections
                                ELSE server_profile
           /\ port_events' =
                  [port_events EXCEPT ![e].pc =
                      IF out.raised = "none" THEN "done" ELSE "failed"]
           /\ lastOp' = PortLog("port_create", port_events[e].port, out)
    /\ UNCHANGED <<conf, segments, declared, rows, bindings, attached,
                   created, restarts>>

\* The two handlers' steps interleave.
NextPortRace ==
    \/ \E e \in PortEventIds : PortCreateFetch(e)
    \/ \E e \in PortEventIds : PortCreatePush(e)

SpecPortRace == InitPortRace /\ [][NextPortRace]_vars


\* Client.__init__ while the fabric may fail uplink-set lookups: the index by
\* type is built from the operator's mapping.
ClientInit(mapping) ==
    /\ \E lookup_failed \in LookupOracles :
        /\ uplinkset_mappings_dict' = mapping
        /\ physnet_uplinkset_mapping' =
               _physnet_uplinkset_mapping_by_type(mapping, lookup_failed)
        /\ lastOp' = [op |-> "client_init", lookup_failed |-> lookup_failed]
    /\ UNCHANGED <<flat_physnet_net_mapping, segments, declared, rows,
                   bindings, attached, created, restarts, server_profile,
                   port_events>>

\* The service is constructed, again and again, over an empty mapping store.
NextIndex == \E mapping \in RawMappings : ClientInit(mapping)

SpecIndex == Init /\ [][NextIndex]_vars



----------------------------------------------------------------------------
(* Vocabulary of the properties *)

\* the indices of the calls of a log that are of one kind (and target)
CallsOf(calls, kind) == {i \in 1..Len(calls) : calls[i].kind = kind}
CallsOn(calls, kind, ov, us) ==
    {i \in 1..Len(calls) :
        calls[i].kind = kind /\ calls[i].ov = ov /\ calls[i].us = us}

\* some fabric call of the log failed
SomeCallFailed(calls) == \E i \in 1..Len(calls) : ~calls[i].ok

\* the uplink sets bound to a fabric network in a set of binding rows
BoundTo(rowset, ov) == {u \in Uplinksets : <<ov, u>> \in rowset}

\* the elements of a list
Elems(list) == {list[i] : i \in 1..Len(list)}

\* The mapping policy as the specification words it, over the tables' keys.
InUplinksetTable(p) ==
    \/ p \in DOMAIN physnet_uplinkset_mapping[NETWORK_TYPE_TAGGED]
    \/ p \in DOMAIN physnet_uplinkset_mapping[NETWORK_TYPE_UNTAGGED]
InFlatTable(p) == p \in DOMAIN flat_physnet_net_mapping
PolicyRule(p, t) ==
    IF t = "vlan" /\ InUplinksetTable(p) THEN "UplinksetMapped"
    ELSE IF InFlatTable(p) THEN "FlatMapped"
    ELSE IF InUplinksetTable(p) THEN "UplinksetMapped"
    ELSE "Unmanaged"
PolicyRuleOf(n) ==
    PolicyRule(segments[n].physical_network, segments[n].network_type)
MappingTypeName(mapping_type) ==
    CASE mapping_type = PHYSNET_UPLINKSET_MAPPING_TYPE -> "UplinksetMapped"
      [] mapping_type = FLAT_PHYSNET_NET_MAPPING_TYPE -> "FlatMapped"
      [] OTHER -> "Unmanaged"

----------------------------------------------------------------------------
(* C1 *)

\* C1 (as claimed): Network create on a logical network that already has a
\* NetworkMapping is a no-op: it issues no fabric call (so two creates make
\* at most one ethernet-network create call) and leaves the mapping store as
\* it was.
C1_SecondCreateIsNoOp ==
    [][(lastOp'.op = "network_create" /\ lastOp'.hadRow)
        => /\ lastOp'.calls = <<>>
           /\ rows' = rows
           /\ bindings' = bindings]_vars

----------------------------------------------------------------------------
(* C2 *)

\* C2 (as claimed): a drift-correction pass in which no fabric call fails
\* issues, for every mapped logical network whose physical network the
\* uplink-set table names, exactly one detach per id of current minus
\* desired, exactly one attach per id of desired minus current, no call for
\* any other id, and leaves the persisted bindings equal to desired.
C2_DriftCorrected ==
    [][(lastOp'.op = "sync_uplinksets" /\ ~SomeCallFailed(lastOp'.calls))
        => \A n \in declared \cap DOMAIN rows :
            LET p == segments[n].physical_network
                ov == rows[n].oneview_network_id
                current == BoundTo(bindings, ov)
                desired == Elems(uplinkset_mappings_dict[p])
            IN  p \in DOMAIN uplinkset_mappings_dict
                => /\ \A u \in Uplinksets :
                        /\ Cardinality(CallsOn(lastOp'.calls, "detach", ov, u))
                             = IF u \in current \ desired THEN 1 ELSE 0
                        /\ Cardinality(CallsOn(lastOp'.calls, "attach", ov, u))
                             = IF u \in desired \ current THEN 1 ELSE 0
                   /\ BoundTo(bindings', ov) = desired]_vars

----------------------------------------------------------------------------
(* C3 *)

\* C3: a drift-correction pass that directly follows a drift-correction pass,
\* with no fabric call failing in either and no reconfiguration in between,
\* issues no attach and no detach call.
C3_SecondSyncIsQuiet ==
    [][(/\ lastOp.op = "sync_uplinksets"
        /\ ~SomeCallFailed(lastOp.calls)
        /\ lastOp'.op = "sync_uplinksets"
        /\ ~SomeCallFailed(lastOp'.calls))
        => /\ CallsOf(lastOp'.calls, "attach") = {}
           /\ CallsOf(lastOp'.calls, "detach") = {}
           /\ bindings' = bindings]_vars

\* C3 witness: a pass found nothing to do on a manageable network that holds
\* a binding only an earlier pass can have attached (an uplink set of the
\* other tagging type).
C3_Witness ==
    /\ lastOp.op = "sync_uplinksets"
    /\ lastOp.calls = <<>>
    /\ lastOp.raised = "none"
    /\ \E n \in declared \cap DOMAIN rows :
        /\ rows[n].manageable
        /\ segments[n].physical_network \in DOMAIN uplinkset_mappings_dict
        /\ \E u, v \in BoundTo(bindings, rows[n].oneview_network_id) :
              FabricUplinksetType(u) # FabricUplinksetType(v)

----------------------------------------------------------------------------
(* C4 *)

\* C4: for every segment and every configuration, the mapping type the code
\* decides is the one the ordered rules give (vlan in an uplink-set table:
\* UplinksetMapped; else in the flat table: FlatMapped; else in an uplink-set
\* table: UplinksetMapped; else Unmanaged), and Network create acts on it.
C4_PolicyDecision ==
    /\ \A p \in Physnets \cup {NoPhysnet}, t \in NetworkTypes :
          MappingTypeName(_get_network_mapping_type(p, t)) = PolicyRule(p, t)
    /\ lastOp.op = "network_create"
          => MappingTypeName(lastOp.mapping_type) = PolicyRuleOf(lastOp.net)

\* C4 witness: Network create mapped a vlan segment whose physical network is
\* in an uplink-set table and in the flat table to managed uplink sets.
C4_Witness ==
    /\ lastOp.op = "network_create"
    /\ segments[lastOp.net].network_type = "vlan"
    /\ InUplinksetTable(segments[lastOp.net].physical_network)
    /\ InFlatTable(segments[lastOp.net].physical_network)
    /\ lastOp.mapping_type = PHYSNET_UPLINKSET_MAPPING_TYPE
    /\ lastOp.net \in DOMAIN rows
    /\ rows[lastOp.net].manageable

----------------------------------------------------------------------------
(* C5 *)

\* C5: Network create on a FlatMapped segment issues no fabric call, persists
\* a NetworkMapping naming the flat table's fabric network with
\* manageable=false, and persists no binding row.
C5_FlatCreate ==
    [][(lastOp'.op = "network_create"
        /\ PolicyRuleOf(lastOp'.net) = "FlatMapped")
        => /\ lastOp'.calls = <<>>
           /\ lastOp'.raised = "none"
           /\ lastOp'.net \in DOMAIN rows'
           /\ rows'[lastOp'.net] =
                [oneview_network_id |->
                     flat_physnet_net_mapping[
                         segments[lastOp'.net].physical_network],
                 manageable |-> FALSE]
           /\ bindings' = bindings]_vars

\* C5 witness: Network create has just flat-mapped a network.
C5_Witness ==
    /\ lastOp.op = "network_create"
    /\ ~lastOp.hadRow
    /\ PolicyRuleOf(lastOp.net) = "FlatMapped"
    /\ lastOp.net \in DOMAIN rows
    /\ ~rows[lastOp.net].manageable

----------------------------------------------------------------------------
(* C6 *)

\* C6 (as claimed): the fabric network of a NetworkMapping with
\* manageable=false has no binding row, in every reachable state.
C6_UnmanageableHasNoBinding ==
    \A n \in DOMAIN rows :
        ~rows[n].manageable
            => BoundTo(bindings, rows[n].oneview_network_id) = {}

----------------------------------------------------------------------------
(* C7 *)

\* C7: every fabric ethernet-network delete targets a fabric network that
\* this system created and that no NetworkMapping holds as manageable=false.
C7_DeleteOnlyManageable ==
    [][\A i \in CallsOf(lastOp'.calls, "delete") :
          /\ lastOp'.calls[i].ov \in created
          /\ \A n \in DOMAIN rows :
                rows[n].oneview_network_id = lastOp'.calls[i].ov
                    => rows[n].manageable]_vars

\* C7 witness: Network delete removed a manageable=false mapping without any
\* fabric call.
C7_Witness ==
    /\ lastOp.op = "network_delete"
    /\ lastOp.hadRow
    /\ lastOp.calls = <<>>
    /\ lastOp.net \notin DOMAIN rows

----------------------------------------------------------------------------
(* C8 *)

\* C8 (as claimed): a periodic pass in which a fabric call fails still
\* processes every logical network of its list.
C8_PassSurvivesFailure ==
    /\ (lastOp.op = "sync_uplinksets" /\ SomeCallFailed(lastOp.calls))
          => lastOp.visited = list_networks_and_segments_with_physnet
    /\ (lastOp.op = "create_networks" /\ SomeCallFailed(lastOp.calls))
          => lastOp.visited = list_neutron_networks

----------------------------------------------------------------------------
(* C9 *)

\* C9 (as claimed): when the fabric delete of a manageable network raises,
\* Network delete still removes the NetworkMapping row and its binding rows.
C9_DeleteBestEffort ==
    (lastOp.op = "network_delete" /\ SomeCallFailed(lastOp.calls))
        => /\ lastOp.net \notin DOMAIN rows
           /\ \A i \in CallsOf(lastOp.calls, "delete") :
                 BoundTo(bindings, lastOp.calls[i].ov) = {}

\* C9 (amended): when the fabric delete of a manageable network raises, the
\* error propagates out of Network delete and the mapping store is left as
\* it was; when it succeeds, or the mapping is not manageable, the
\* NetworkMapping row and every binding row of its fabric network are
\* removed.
C9_DeletePropagates ==
    [][(lastOp'.op = "network_delete" /\ lastOp'.hadRow)
        => IF SomeCallFailed(lastOp'.calls)
           THEN /\ lastOp'.raised = "HPOneViewException"
                /\ rows' = rows
                /\ bindings' = bindings
           ELSE /\ lastOp'.raised = "none"
                /\ lastOp'.net \notin DOMAIN rows'
                /\ BoundTo(bindings',
                           rows[lastOp'.net].oneview_network_id) = {}]_vars

\* C9 witness: the fabric delete raised and the mapping row is still there.
C9_Witness ==
    /\ lastOp.op = "network_delete"
    /\ SomeCallFailed(lastOp.calls)
    /\ lastOp.raised = "HPOneViewException"
    /\ lastOp.net \in DOMAIN rows
    /\ rows[lastOp.net].manageable

----------------------------------------------------------------------------
(* C10 *)

\* C10 (as claimed): every persisted binding row is backed by a successful
\* attach: its pair was attached by this system's last successful fabric call
\* for it.
C10_BindingsBacked == bindings \subseteq attached

----------------------------------------------------------------------------
(* C11 *)

\* the uplink-set table Network.create selects by the segment's network type
TypeTableOf(n) ==
    physnet_uplinkset_mapping[
        _NEUTRON_NET_TYPE_TO_ONEVIEW_NET_TYPE(segments[n].network_type)]

\* a segment classified UplinksetMapped whose physical network has no ids in
\* the table its network type selects
ConfigurationGap(n) ==
    /\ PolicyRuleOf(n) = "UplinksetMapped"
    /\ ~Truthy(TypeTableOf(n), segments[n].physical_network)

\* the create calls of a log made for logical network n
CreatesFor(calls, n) ==
    {i \in 1..Len(calls) : calls[i].kind = "create" /\ calls[i].name = n}

\* C11 (as claimed): for a segment classified UplinksetMapped whose physical
\* network has no ids in the table selected by its network type, Network
\* create and pass 2 issue no fabric ethernet-network create, persist no
\* NetworkMapping and raise no error.
C11_GapSkipped ==
    [][/\ (lastOp'.op = "network_create" /\ ~lastOp'.hadRow
           /\ ConfigurationGap(lastOp'.net))
          => /\ CreatesFor(lastOp'.calls, lastOp'.net) = {}
             /\ lastOp'.net \notin DOMAIN rows'
             /\ lastOp'.raised = "none"
       /\ lastOp'.op = "create_networks"
          => \A n \in Elems(lastOp'.visited) \ DOMAIN rows :
                ConfigurationGap(n)
                   => /\ CreatesFor(lastOp'.calls, n) = {}
                      /\ n \notin DOMAIN rows'
                      /\ (lastOp'.raised # "none"
                            => n # lastOp'.visited[Len(lastOp'.visited)])
      ]_vars

----------------------------------------------------------------------------
(* C12 *)

\* the state is the one a periodic invocation leaves: pass 1 ran, pass 2 ran
\* directly after it and returned, and no fabric call failed in either
AfterInvocation ==
    /\ lastOp.op = "create_networks"
    /\ lastOp.afterSync # "-"
    /\ lastOp.raised = "none"
    /\ ~SomeCallFailed(lastOp.calls)

\* C12 (as claimed): after one periodic invocation (pass 1 then pass 2) with
\* no fabric failure, either pass run again with the declared networks and
\* the configuration unchanged issues no fabric call and leaves the mapping
\* store unchanged.
C12_SyncFixedPoint ==
    [][(/\ AfterInvocation
        /\ lastOp'.op \in {"sync_uplinksets", "create_networks"}
        /\ ~SomeCallFailed(lastOp'.calls))
        => /\ lastOp'.calls = <<>>
           /\ rows' = rows
           /\ bindings' = bindings]_vars

----------------------------------------------------------------------------
(* Vocabulary of the port properties *)

\* Port eligibility as the specification words it: a bare-metal port of a
\* mapped network with exactly one local_link_information entry whose
\* switch_info holds a server_hardware_id and a boolean bootable.
Eligible(port_dict) ==
    /\ port_dict.vnic_type = "baremetal"
    /\ port_dict.network_id \in DOMAIN rows
    /\ Len(port_dict.local_link_information) = 1
    /\ "switch_info" \in DOMAIN port_dict.local_link_information[1]
    /\ LET switch_info == port_dict.local_link_information[1].switch_info
       IN  /\ "server_hardware_id" \in DOMAIN switch_info
           /\ "bootable" \in DOMAIN switch_info
           /\ switch_info.bootable \in {"True", "False"}

PortOps == {"port_create", "port_delete"}

\* the calls of a port log that push the profile to the fabric
UpdateCalls(calls) ==
    {i \in 1..Len(calls) : calls[i].kind = "server_profiles.update"}

\* some connection of the profile has a boot priority
HasPriority(connections, priority) ==
    \E i \in 1..Len(connections) : connections[i].priority = priority

\* bootable of an eligible port
BootableOf(port_dict) ==
    port_dict.local_link_information[1].switch_info.bootable = "True"

----------------------------------------------------------------------------
(* C13 *)

\* C13: Port create and Port delete of a port that is not eligible (not
\* bare-metal, or its network has no NetworkMapping, or its
\* local_link_information is not exactly one entry whose switch_info holds a
\* server_hardware_id and a boolean bootable) issue no fabric call, raise no
\* error and leave the server profile as it was.
C13_PortGate ==
    [][(lastOp'.op \in PortOps /\ ~Eligible(lastOp'.port))
        => /\ lastOp'.calls = <<>>
           /\ lastOp'.raised = "none"
           /\ server_profile' = server_profile]_vars

\* C13 witness: a port that is eligible but for its vnic type was a silent
\* no-op of Port create.
C13_Witness ==
    /\ lastOp.op = "port_create"
    /\ lastOp.port.vnic_type = "normal"
    /\ Eligible([lastOp.port EXCEPT !.vnic_type = "baremetal"])
    /\ lastOp.calls = <<>>
    /\ lastOp.raised = "none"

----------------------------------------------------------------------------
(* C14 *)

\* C14 (as claimed): Port delete of an eligible port whose MAC matches no
\* connection of the server profile leaves the connection list unchanged and
\* issues no server-profile update call.
C14_DeleteNoMatchIsQuiet ==
    [][(/\ lastOp'.op = "port_delete"
        /\ Eligible(lastOp'.port)
        /\ \A i \in 1..Len(server_profile) :
              Upper(server_profile[i].mac) # Upper(lastOp'.port.mac_address))
        => /\ server_profile' = server_profile
           /\ UpdateCalls(lastOp'.calls) = {}]_vars

----------------------------------------------------------------------------
(* C15 *)

\* the boot priority the specification's rule gives a port
BootPriorityRule(connections, bootable) ==
    IF bootable /\ ~HasPriority(connections, "Primary") THEN "Primary"
    ELSE IF bootable /\ ~HasPriority(connections, "Secondary")
    THEN "Secondary"
    ELSE "NotBootable"

\* C15: the boot priority Port create computes, and gives the connection it
\* appends, is Primary for a bootable port when no existing connection is
\* Primary, else Secondary for a bootable port when no existing connection is
\* Secondary, else NotBootable; a non-bootable port gets NotBootable.
C15_BootPriority ==
    [][(lastOp'.op = "port_create" /\ lastOp'.priority # "-")
        => /\ lastOp'.priority =
                BootPriorityRule(server_profile, BootableOf(lastOp'.port))
           /\ server_profile' # server_profile
                => /\ Len(server_profile') = Len(server_profile) + 1
                   /\ server_profile'[Len(server_profile')].priority =
                         lastOp'.priority
           /\ ~BootableOf(lastOp'.port) => lastOp'.priority = "NotBootable"
      ]_vars

\* C15 witness: a bootable port was connected as Secondary beside a Primary
\* connection.
C15_Witness ==
    /\ lastOp.op = "port_create"
    /\ lastOp.raised = "none"
    /\ lastOp.priority = "Secondary"
    /\ BootableOf(lastOp.port)
    /\ Len(server_profile) >= 2
    /\ server_profile[Len(server_profile)].priority = "Secondary"
    /\ HasPriority(server_profile, "Primary")

----------------------------------------------------------------------------
(* C16 *)

\* the create calls of a log that failed / that returned fabric network ov
FailedCreatesFor(calls, n) ==
    {i \in CreatesFor(calls, n) : ~calls[i].ok}
ReturnedBy(calls, ov) ==
    {i \in CallsOf(calls, "create") : calls[i].ok /\ calls[i].ov = ov}

\* C16: Network create (from the network event or from pass 2) persists a
\* manageable NetworkMapping, and binding rows, only for a fabric network
\* whose ethernet-network create returned in the same run; when the fabric
\* create for a logical network raises, the run persists no NetworkMapping
\* and no binding row for it, so that pass 2 still finds it unmapped.
C16_PersistAfterCreate ==
    [][lastOp'.op \in {"network_create", "create_networks"}
        => /\ \A n \in DOMAIN rows' :
                (n \notin DOMAIN rows \/ rows'[n] # rows[n])
                /\ rows'[n].manageable
                   => ReturnedBy(lastOp'.calls,
                                 rows'[n].oneview_network_id) # {}
           /\ \A b \in bindings' \ bindings :
                ReturnedBy(lastOp'.calls, b[1]) # {}
           /\ \A n \in NetIds :
                FailedCreatesFor(lastOp'.calls, n) # {}
                   => /\ lastOp'.raised = "HPOneViewException"
                      /\ (n \in DOMAIN rows' => n \in DOMAIN rows
                                                /\ rows'[n] = rows[n])
                      /\ bindings' \subseteq bindings
                            \cup {b \in bindings' :
                                    ReturnedBy(lastOp'.calls, b[1]) # {}}
      ]_vars

\* C16 witness: the fabric create of pass 2 raised for a network, which is
\* left without a NetworkMapping.
C16_Witness ==
    /\ lastOp.op = "create_networks"
    /\ lastOp.raised = "HPOneViewException"
    /\ \E n \in declared \ DOMAIN rows :
          FailedCreatesFor(lastOp.calls, n) # {}

----------------------------------------------------------------------------
(* C17 *)

\* the logical networks pass 1 lists whose physical network the uplink-set
\* mapping table names and that have no NetworkMapping row
UnmappedInTable ==
    {n \in declared :
        /\ segments[n].physical_network \in DOMAIN uplinkset_mappings_dict
        /\ n \notin DOMAIN rows}

\* C17 (as claimed): a drift-correction pass that meets a logical network
\* whose physical network is in the uplink-set mapping table but that has no
\* NetworkMapping row does not raise, goes on to the remaining networks, and
\* makes no fabric call for it.
C17_SyncSkipsUnmapped ==
    (lastOp.op = "sync_uplinksets" /\ UnmappedInTable # {})
        => /\ lastOp.raised = "none"
           /\ lastOp.visited = list_networks_and_segments_with_physnet

----------------------------------------------------------------------------
(* C18 *)

\* the attach and detach calls of a log that failed
FailedUplinksetCalls(calls) ==
    {i \in CallsOf(calls, "attach") \cup CallsOf(calls, "detach") :
        ~calls[i].ok}

----------------------------------------------------------------------------
(* C19 *)

\* server_hardware_id of an eligible port
ServerHardwareOf(port_dict) ==
    port_dict.local_link_information[1].switch_info.server_hardware_id

\* some virtual port of the server hardware's port map has the port's MAC,
\* uppercased
MacInPortMap(port_dict) ==
    \E i \in 1..Len(PortMap(ServerHardwareOf(port_dict))) :
        PortMap(ServerHardwareOf(port_dict))[i].mac
            = Upper(port_dict.mac_address)

\* a server hardware lookup of the log failed
HardwareLookupFailed(calls) ==
    \E i \in 1..Len(calls) :
        /\ calls[i].kind \in {"server_hardware.get", "port_map.get"}
        /\ ~calls[i].ok

\* C19: Port create of an eligible port ends in an error, pushes no
\* server-profile update and leaves the fabric's profile unchanged when the
\* server hardware lookup fails or no virtual port of the port map has the
\* port's MAC uppercased.
C19_CreateFailsClosed ==
    [][(/\ lastOp'.op = "port_create"
        /\ Eligible(lastOp'.port)
        /\ \/ HardwareLookupFailed(lastOp'.calls)
           \/ ~MacInPortMap(lastOp'.port))
        => /\ lastOp'.raised # "none"
           /\ UpdateCalls(lastOp'.calls) = {}
           /\ server_profile' = server_profile]_vars

\* C19 witness: Port create of an eligible port whose MAC the port map lacks
\* raised after the hardware and the profile had been read.
C19_Witness ==
    /\ lastOp.op = "port_create"
    /\ Eligible(lastOp.port)
    /\ ~MacInPortMap(lastOp.port)
    /\ ~HardwareLookupFailed(lastOp.calls)
    /\ Len(lastOp.calls) = Cardinality(PortCallNames) - 1
    /\ lastOp.raised = "AttributeError"

----------------------------------------------------------------------------
(* C20 *)

\* uplink set u is listed under type t for physical network p
ListedUnder(t, p, u) ==
    /\ p \in DOMAIN physnet_uplinkset_mapping[t]
    /\ InList(u, physnet_uplinkset_mapping[t][p])

IndexTypes == {NETWORK_TYPE_TAGGED, NETWORK_TYPE_UNTAGGED}

\* C20: after the index by type is built, an operator-configured uplink-set
\* id is listed under a type for its physical network if and only if the
\* fabric reports that type for it (compared in lower case) or the lookup
\* made for that type failed; an id whose lookups all failed is listed under
\* both types, one whose lookups all succeeded under exactly one.
C20_IndexByType ==
    lastOp.op = "client_init"
        => \A p \in DOMAIN uplinkset_mappings_dict :
           \A u \in Elems(uplinkset_mappings_dict[p]) :
              /\ \A t \in IndexTypes :
                    ListedUnder(t, p, u)
                       <=> \/ Lower(FabricUplinksetType(u)) = t
                           \/ u \in lastOp.lookup_failed[t]
              /\ (\A t \in IndexTypes : u \in lastOp.lookup_failed[t])
                    => \A t \in IndexTypes : ListedUnder(t, p, u)
              /\ (\A t \in IndexTypes : u \notin lastOp.lookup_failed[t])
                    => Cardinality({t \in IndexTypes : ListedUnder(t, p, u)})
                          = 1

\* C20 witness: of two configured ids of one physical network, one whose
\* lookups failed is listed under both types and one whose lookups
\* succeeded under one.
C20_Witness ==
    /\ lastOp.op = "client_init"
    /\ \E p \in DOMAIN uplinkset_mappings_dict :
       \E u, v \in Elems(uplinkset_mappings_dict[p]) :
          /\ \A t \in IndexTypes : u \in lastOp.lookup_failed[t]
          /\ \A t \in IndexTypes : ListedUnder(t, p, u)
          /\ \A t \in IndexTypes : v \notin lastOp.lookup_failed[t]
          /\ Cardinality({t \in IndexTypes : ListedUnder(t, p, v)}) = 1

----------------------------------------------------------------------------
(* C21 *)

\* the connections of a profile that carry a boot priority
WithPriority(connections, priority) ==
    {i \in 1..Len(connections) : connections[i].priority = priority}

\* C21: the server profile, which starts with at most one Primary and at
\* most one Secondary connection, has at most one Primary and at most one
\* Secondary connection after every serially executed Port create and Port
\* delete.
C21_OnePrimaryOneSecondary ==
    /\ Cardinality(WithPriority(server_profile, "Primary")) <= 1
    /\ Cardinality(WithPriority(server_profile, "Secondary")) <= 1

\* C21 witness: Port create connected a bootable port as NotBootable beside
\* a Primary and a Secondary connection, of which one at least was made by
\* an earlier Port create.
C21_Witness ==
    /\ lastOp.op = "port_create"
    /\ lastOp.raised = "none"
    /\ lastOp.priority = "NotBootable"
    /\ BootableOf(lastOp.port)
    /\ WithPriority(server_profile, "Primary") # {}
    /\ WithPriority(server_profile, "Secondary") # {}
    /\ \E i \in 1..Len(server_profile) :
          /\ server_profile[i].priority \in {"Primary", "Secondary"}
          /\ server_profile[i] \notin
                {OtherConnection("Primary"), OtherConnection("Secondary")}

----------------------------------------------------------------------------
(* C22 *)

\* the connections of the fabric's profile made for a port event
ConnectionsOf(e) ==
    {i \in 1..Len(server_profile) :
        server_profile[i].mac = Upper(port_events[e].port.mac_address)}

\* C22 (as claimed): once two interleaved Port creates for different MACs on
\* one server hardware have both completed, the fabric's server profile
\* holds a connection for each of the two ports, and the two connections are
\* not both Primary.
C22_BothConnected ==
    (/\ DOMAIN port_events = PortEventIds
     /\ \A e \in PortEventIds : port_events[e].pc = "done")
        => /\ \A e \in PortEventIds : ConnectionsOf(e) # {}
           /\ \E e \in PortEventIds :
                 \A i \in ConnectionsOf(e) :
                    server_profile[i].priority # "Primary"

====
